---- MODULE Spec2Model ----
(***************************************************************************)
(* Model of investment_optimization.py and util.py: retrieve_data builds   *)
(* the price frame, investment_portfolio runs the SLSQP solver on the      *)
(* objective sharpe, evaluates statistics at the solver's point, writes    *)
(* the plot and the spreadsheet and returns; main prints the result.       *)
(*                                                                         *)
(* Floats are modelled exactly: a finite float x is the record             *)
(* [k |-> "fin", s |-> sign(x), n/d |-> x^2 in lowest terms], so that      *)
(* square roots (std, sqrt(252)) stay exact; NaN and +-inf are separate    *)
(* kinds with numpy's division rules.                                      *)
(***************************************************************************)
EXTENDS Integers, Sequences, FiniteSets, TLC

VARIABLES pc, stocks, period, files, padFill, all_data, prices,
          allocations, success, fun, stats, ret, artifacts, raised,
          warnings, printed

\* pc          where the run is: start, loaded, plotted, returned,
\*             printed, failed (args: a direct call of statistics / sharpe)
\* stocks      main's list of stocks (line 122), passed by reference
\* period      start_date and end_date as positions in the calendar
\* files       the CSV files under MARKET_DATA_DIR, per ticker
\* padFill     whether the installed pandas pads gaps in pct_change
\* all_data, prices   the frames of lines 77 and 78
\* allocations, success, fun   temp_output.x, .success, .fun (lines 85-88)
\* stats       the tuple statistics returned at line 91
\* ret         the tuple investment_portfolio returned (line 114)
\* artifacts   the output files written so far
\* raised      the exception that ended the run, or none
\* warnings    the warnings issued so far
\* printed     what main printed, by label (lines 130-134)
vars == <<pc, stocks, period, files, padFill, all_data, prices,
          allocations, success, fun, stats, ret, artifacts, raised,
          warnings, printed>>

(* ---------------------------- bounds ----------------------------------- *)
\* number of calendar dates the CSV files and the date range are drawn from
NumDates == 3
\* solver points are multiples of 1/WDen, numerators 0..WMaxNum
WDen == 1
WMaxNum == 2

(* ------------------------- program constants --------------------------- *)
\* a missing cell of a frame (pandas NaN)
NaN == 0
\* trading days per year under the square root
TradingDays == 252

AllDates == 1..NumDates
\* the tickers a request can name besides SPY, and the prices a CSV cell holds
Tickers == {"A", "B"}
Prices == {1, 2}
Benchmark == "SPY"

(* ------------------------- exact arithmetic ---------------------------- *)
Abs(x) == IF x < 0 THEN -x ELSE x
Sgn(x) == IF x < 0 THEN -1 ELSE IF x = 0 THEN 0 ELSE 1

RECURSIVE GCD(_, _)
GCD(a, b) == IF b = 0 THEN a ELSE GCD(b, a % b)

\* the rational n/d in lowest terms with a positive denominator (d # 0)
Rat(n, d) ==
    LET g == GCD(Abs(n), Abs(d))
        s == IF d < 0 THEN -1 ELSE 1
    IN  [n |-> (s * n) \div g, d |-> (s * d) \div g]

RZero == [n |-> 0, d |-> 1]
ROne == [n |-> 1, d |-> 1]
RAdd(x, y) == Rat(x.n * y.d + y.n * x.d, x.d * y.d)
RSub(x, y) == Rat(x.n * y.d - y.n * x.d, x.d * y.d)
RMul(x, y) == Rat(x.n * y.n, x.d * y.d)
RLeq(x, y) == x.n * y.d <= y.n * x.d

RECURSIVE RSum(_)
RSum(s) == IF s = <<>> THEN RZero ELSE RAdd(Head(s), RSum(Tail(s)))

RECURSIVE RProd(_)
RProd(s) == IF s = <<>> THEN ROne ELSE RMul(Head(s), RProd(Tail(s)))

\* floats
FNaN == [k |-> "nan", s |-> 0, n |-> 0, d |-> 1]
FInf(sg) == [k |-> "inf", s |-> sg, n |-> 0, d |-> 1]
\* the float equal to the rational r
FRat(r) == [k |-> "fin", s |-> Sgn(r.n), n |-> r.n * r.n, d |-> r.d * r.d]
\* the float sqrt(r), r >= 0
FSqrt(r) == [k |-> "fin", s |-> Sgn(r.n), n |-> r.n, d |-> r.d]
\* numpy float64 division x / y (y is never negative zero here)
FDiv(x, y) ==
    IF x.k = "nan" \/ y.k = "nan" THEN FNaN
    ELSE IF y.k = "inf" THEN (IF x.k = "inf" THEN FNaN ELSE FRat(RZero))
    ELSE IF x.k = "inf" THEN FInf(IF y.s < 0 THEN -x.s ELSE x.s)
    ELSE IF y.s = 0 THEN (IF x.s = 0 THEN FNaN ELSE FInf(x.s))
    ELSE LET q == Rat(x.n * y.d, x.d * y.n)
         IN  [k |-> "fin", s |-> x.s * y.s, n |-> q.n, d |-> q.d]
\* x * sqrt(c) for an integer c > 0
FMulSqrt(x, c) ==
    IF x.k # "fin" THEN x
    ELSE LET q == Rat(x.n * c, x.d)
         IN  [k |-> "fin", s |-> x.s, n |-> q.n, d |-> q.d]
FNeg(x) == [x EXCEPT !.s = -x.s]
IsFiniteF(x) == x.k = "fin"

(* ------------------------------ frames --------------------------------- *)
\* A frame is [cols, idx, vals]: column names, row dates, and one sequence of
\* cells per row; a cell is a price or NaN.
Range(s) == {s[i] : i \in 1..Len(s)}

RECURSIVE SelectSeq2(_, _, _)
\* the subsequence of s at the positions i with keep[i]
SelectSeq2(s, keep, i) ==
    IF i > Len(s) THEN <<>>
    ELSE (IF keep[i] THEN <<s[i]>> ELSE <<>>) \o SelectSeq2(s, keep, i + 1)

EmptyFrame == [cols |-> <<>>, idx |-> <<>>, vals |-> <<>>]

\* pd.date_range(start_date, end_date): the dates lo..hi in order
DateRange(p) == [i \in 1..(IF p.hi >= p.lo THEN p.hi - p.lo + 1 ELSE 0) |-> p.lo + i - 1]

\* pd.DataFrame(index=dates)
NewFrame(dates) == [cols |-> <<>>, idx |-> dates, vals |-> [i \in 1..Len(dates) |-> <<>>]]

\* df.join(df_temp): a left join on the row date; a date the CSV has no row
\* for (or has "nan" for) yields NaN
Join(df, name, data) ==
    [cols |-> Append(df.cols, name),
     idx  |-> df.idx,
     vals |-> [r \in 1..Len(df.idx) |-> Append(df.vals[r], data[df.idx[r]])]]

ColIndex(cols, name) == CHOOSE i \in 1..Len(cols) : cols[i] = name

\* as DropNaSubset, the rows kept as they are
DropNaSubsetKeepAll(df, name) == df

\* df.dropna(subset=[name], inplace=True)
DropNaSubset(df, name) ==
    LET c == ColIndex(df.cols, name)
        keep == [r \in 1..Len(df.idx) |-> df.vals[r][c] # NaN]
    IN  [cols |-> df.cols,
         idx  |-> SelectSeq2(df.idx, keep, 1),
         vals |-> SelectSeq2(df.vals, keep, 1)]

\* all_data[names]: the named columns, in the order named
SelectCols(df, names) ==
    [cols |-> names,
     idx  |-> df.idx,
     vals |-> [r \in 1..Len(df.idx) |->
                 [j \in 1..Len(names) |-> df.vals[r][ColIndex(df.cols, names[j])]]]]

(* --------------------------- retrieve_data ----------------------------- *)
\* what the local name stocks is bound to inside retrieve_data
RdStocks(st) == <<Benchmark>> \o st

\* as CallerStocks, had retrieve_data inserted SPY into the caller's list
CallerStocksInserted(st) == <<Benchmark>> \o st

\* the caller's list after the call: line 18 rebinds the local name only
CallerStocks(st) == st

RECURSIVE RdLoop(_, _, _, _)
\* the loop over the stocks from position i on; a missing file makes read_csv
\* raise, a column already in the frame makes join raise
RdLoop(df, names, i, fs) ==
    IF i > Len(names) THEN [err |-> "none", df |-> df]
    ELSE LET stock == names[i] IN
         IF ~fs[stock].exists THEN [err |-> "FileNotFoundError", df |-> df]
         ELSE IF stock \in Range(df.cols) THEN [err |-> "ValueError", df |-> df]
         ELSE LET joined == Join(df, stock, fs[stock].data)
                  cleaned == IF stock = Benchmark
                             THEN DropNaSubset(joined, Benchmark) ELSE joined
              IN  RdLoop(cleaned, names, i + 1, fs)

RetrieveData(st, dates, fs) == RdLoop(NewFrame(dates), RdStocks(st), 1, fs)

(* ----------------------- statistics and sharpe ------------------------- *)
RECURSIVE FfillCell(_, _, _)
\* the last value at or above row t of column c that is not NaN
FfillCell(vals, t, c) ==
    IF vals[t][c] # NaN \/ t = 1 THEN vals[t][c] ELSE FfillCell(vals, t - 1, c)

\* data.pct_change(): one row per price row, the first all NaN; a pandas
\* whose pct_change defaults to fill_method='pad' fills gaps forward first,
\* one that defaults to no filling does not. A return cell is [nan, r].
PctChange(vals, pad) ==
    LET W == IF vals = <<>> THEN 0 ELSE Len(vals[1])
        F(t, c) == IF pad THEN FfillCell(vals, t, c) ELSE vals[t][c]
    IN  [t \in 1..Len(vals) |->
           [c \in 1..W |->
              IF t = 1 \/ F(t, c) = NaN \/ F(t - 1, c) = NaN
              THEN [nan |-> TRUE, r |-> RZero]
              ELSE [nan |-> FALSE, r |-> Rat(F(t, c) - F(t - 1, c), F(t - 1, c))]]]

\* .dropna(): the rows without a NaN
DropNa(rets) ==
    SelectSeq2(rets, [t \in 1..Len(rets) |-> \A c \in 1..Len(rets[t]) : ~rets[t][c].nan], 1)

\* (daily_returns * allocations).sum(axis=1)
PortfolioReturns(allocs, rets) ==
    [t \in 1..Len(rets) |->
       RSum([c \in 1..Len(rets[t]) |-> RMul(rets[t][c].r, allocs[c])])]

\* Series.mean(): NaN of an empty series
Mean(pr) == IF Len(pr) = 0 THEN FNaN ELSE FRat(RMul(RSum(pr), Rat(1, Len(pr))))

\* the squared deviations from the mean, summed and divided by len - ddof
Variance(pr, ddof) ==
    LET m == RMul(RSum(pr), Rat(1, Len(pr)))
        sq == [t \in 1..Len(pr) |-> RMul(RSub(pr[t], m), RSub(pr[t], m))]
    IN  RMul(RSum(sq), Rat(1, Len(pr) - ddof))

\* Series.std(): sample standard deviation (ddof=1), NaN below two values
Std(pr) == IF Len(pr) < 2 THEN FNaN ELSE FSqrt(Variance(pr, 1))

\* (portfolio_returns + 1).prod() - 1
CumulativeReturn(pr) ==
    FRat(RSub(RProd([t \in 1..Len(pr) |-> RAdd(pr[t], ROne)]), ROne))

\* lines 26-32 of statistics, from the daily returns on
StatisticsOf(allocs, daily_returns) ==
    LET portfolio_returns == PortfolioReturns(allocs, daily_returns)
        cumulative_return == CumulativeReturn(portfolio_returns)
        daily_return_mean == Mean(portfolio_returns)
        daily_std == Std(portfolio_returns)
        sharpe_ratio == FMulSqrt(FDiv(daily_return_mean, daily_std), TradingDays)
    IN  <<cumulative_return, daily_return_mean, daily_std, sharpe_ratio>>

\* statistics(allocations, data) -> (cumulative_return, daily_return_mean,
\* daily_std, sharpe_ratio)
Statistics(allocs, data, pad) ==
    StatisticsOf(allocs, DropNa(PctChange(data.vals, pad)))

\* as SharpeOf, with the population standard deviation (ddof=0)
SharpeOfPopulationStd(allocs, daily_returns) ==
    LET portfolio_returns == PortfolioReturns(allocs, daily_returns)
        daily_return_mean == Mean(portfolio_returns)
        daily_std == IF Len(portfolio_returns) = 0 THEN FNaN
                     ELSE FSqrt(Variance(portfolio_returns, 0))
        sharpe_ratio == FMulSqrt(FDiv(daily_return_mean, daily_std), TradingDays)
    IN  FNeg(sharpe_ratio)

\* lines 50-55 of sharpe, from the daily returns on
SharpeOf(allocs, daily_returns) ==
    LET portfolio_returns == PortfolioReturns(allocs, daily_returns)
        daily_return_mean == Mean(portfolio_returns)
        daily_std == Std(portfolio_returns)
        sharpe_ratio == FMulSqrt(FDiv(daily_return_mean, daily_std), TradingDays)
    IN  FNeg(sharpe_ratio)

\* sharpe(allocations, data) -> -sharpe_ratio
Sharpe(allocs, data, pad) ==
    SharpeOf(allocs, DropNa(PctChange(data.vals, pad)))

\* the float division of lines 30 and 53 warns (RuntimeWarning) when
\* daily_std is zero; st is the tuple statistics returns
DivWarns(st) == st[3].k = "fin" /\ st[3].s = 0

(* ------------------------------ inputs --------------------------------- *)
NoFile == [exists |-> FALSE, data |-> [d \in AllDates |-> NaN]]

\* the CSV files with one value of vals (or no row / "nan") per date
FileSet(vals) ==
    {[exists |-> TRUE, data |-> f] : f \in [AllDates -> vals \cup {NaN}]}

Names == Tickers \cup {Benchmark}

\* the requests: lists over the names, as long as there are tickers
StockLists == UNION {[1..n -> Names] : n \in 0..Cardinality(Tickers)}

\* the files a request for SPY.csv can find (the SPY price is only divided
\* by its first value for the plot, so one price stands for all)
BenchmarkFiles == FileSet({1}) \cup {NoFile}

\* the files a stock can have: absent, or any prices (or gaps) on the dates
\* in on and no row elsewhere
StockFiles(on) ==
    {[exists |-> TRUE, data |-> [d \in AllDates |-> IF d \in on THEN f[d] ELSE NaN]] :
        f \in [on -> Prices \cup {NaN}]} \cup {NoFile}

\* the data directory a run on the list st sees: SPY.csv and the files of
\* the requested tickers; a file nobody asks for is as good as absent
Directory(st, sp, a) ==
    [t \in Names |-> IF t = Benchmark THEN sp
                     ELSE IF t \in Range(st) THEN a[t] ELSE NoFile]

\* the dates on which SPY.csv has a value
TradingDates(sp) == {d \in AllDates : sp.data[d] # NaN}

FNone == [k |-> "none", s |-> 0, n |-> 0, d |-> 1]

\* the points the solver can hand back for n assets
Points(n) == [1..n -> {Rat(k, WDen) : k \in 0..WMaxNum}]

\* beginning_allocs = [1/len(stocks)] * len(stocks)
BeginningAllocs(n) == [i \in 1..n |-> Rat(1, n)]

\* bounds (0,1) on every entry and the constraint sum(x) - 1 = 0
Feasible(x) ==
    /\ \A i \in 1..Len(x) : RLeq(RZero, x[i]) /\ RLeq(x[i], ROne)
    /\ RSum(x) = ROne

Idle ==
    /\ all_data = EmptyFrame /\ prices = EmptyFrame
    /\ allocations = <<>> /\ success = FALSE /\ fun = FNone
    /\ stats = <<>> /\ ret = <<>> /\ artifacts = {} /\ raised = "none"
    /\ warnings = {} /\ printed = <<>>

\* main's call: the whole range, a list of stocks, and a data directory in
\* which no stock has a price on a day without SPY (the rows of such days are
\* dropped before anything reads them; SpecData has the other directories)
Init ==
    /\ pc = "start"
    /\ stocks \in StockLists
    /\ period = [lo |-> 1, hi |-> NumDates]
    /\ \E sp \in BenchmarkFiles :
       \E a \in [Tickers \cap Range(stocks) -> StockFiles(TradingDates(sp))] :
          files = Directory(stocks, sp, a)
    /\ padFill \in BOOLEAN
    /\ Idle

(* ------------------------ investment_portfolio ------------------------- *)
\* an exception leaves investment_portfolio: its locals are gone, the files
\* written and the warnings issued stay
Fail(exc) ==
    /\ pc' = "failed"
    /\ raised' = exc
    /\ all_data' = EmptyFrame /\ prices' = EmptyFrame
    /\ allocations' = <<>> /\ success' = FALSE /\ fun' = FNone
    /\ stats' = <<>> /\ ret' = <<>>

\* lines 76-79: the date range, retrieve_data, the split into asset columns
\* and the benchmark column
Load ==
    /\ pc = "start"
    /\ LET r == RetrieveData(stocks, DateRange(period), files) IN
       /\ stocks' = CallerStocks(stocks)
       /\ IF r.err # "none"
          THEN Fail(r.err)
          ELSE /\ pc' = "loaded"
               /\ all_data' = r.df
               /\ prices' = SelectCols(r.df, stocks')
               /\ UNCHANGED <<raised, allocations, success, fun, stats, ret>>
    /\ UNCHANGED <<period, files, padFill, artifacts, warnings, printed>>

\* the warnings after a call of sharpe or statistics whose statistics are st
WarningsAfter(st) ==
    IF DivWarns(st) THEN warnings \cup {"RuntimeWarning"} ELSE warnings

\* lines 82-108: the start vector, the bounds, the constraint and the SLSQP
\* run, which hands back some point x with a success flag (a successful
\* result is feasible) and the objective sharpe(x, prices) or raises, and of
\* which only x is kept; statistics(x, prices), both functions starting from
\* the daily returns dr of prices; the normalised series (prices.iloc[0] raises on a frame without rows);
\* the figure and savefig, which writes stock_comparison.png or raises
OptimizeAndPlot ==
    /\ pc = "loaded"
    /\ \/ /\ Len(stocks) = 0
          /\ Fail("ZeroDivisionError")
          /\ UNCHANGED <<artifacts, warnings>>
       \/ /\ Len(stocks) > 0
          /\ Fail("OptimizationFailure")
          /\ UNCHANGED <<artifacts, warnings>>
       \/ /\ Len(stocks) > 0
          /\ \E dr \in {DropNa(PctChange(prices.vals, padFill))} :
             \E x \in Points(Len(stocks)) \cup {BeginningAllocs(Len(stocks))} :
             \E ok \in BOOLEAN :
             \E st \in {StatisticsOf(x, dr)} :
                /\ ok => Feasible(x)
                /\ warnings' = WarningsAfter(st)
                /\ \/ /\ Len(prices.idx) = 0
                      /\ Fail("IndexError")
                      /\ UNCHANGED artifacts
                   \/ /\ Len(prices.idx) > 0
                      /\ Fail("OSError")
                      /\ UNCHANGED artifacts
                   \/ /\ Len(prices.idx) > 0
                      /\ pc' = "plotted"
                      /\ allocations' = x
                      /\ success' = ok
                      /\ fun' = SharpeOf(x, dr)
                      /\ stats' = st
                      /\ artifacts' = artifacts \cup {"stock_comparison.png"}
                      /\ UNCHANGED <<raised, all_data, prices, ret>>
    /\ UNCHANGED <<stocks, period, files, padFill, printed>>

\* as ReturnTuple, the weights clipped to [0,1] on the way out
ReturnTupleClipped(allocs, st) ==
    <<[i \in 1..Len(allocs) |-> IF RLeq(allocs[i], ROne) THEN allocs[i] ELSE ROne],
      st[4], st[1], st[2], st[3]>>

\* line 114: return allocations, _sharpe, cumul_return, daily_return, std
ReturnTuple(allocs, st) == <<allocs, st[4], st[1], st[2], st[3]>>

\* lines 111-114: the combined frame, to_excel (which writes
\* combined_data.xlsx or raises) and the return
ExportAndReturn ==
    /\ pc = "plotted"
    /\ \/ /\ Fail("ExportError")
          /\ UNCHANGED artifacts
       \/ /\ pc' = "returned"
          /\ artifacts' = artifacts \cup {"combined_data.xlsx"}
          /\ ret' = ReturnTuple(allocations, stats)
          /\ UNCHANGED <<raised, all_data, prices, allocations, success, fun, stats>>
    /\ UNCHANGED <<stocks, period, files, padFill, warnings, printed>>

(* -------------------------------- main --------------------------------- *)
\* lines 123-134: the tuple is unpacked as allocations, cumul_return, sharpe,
\* daily_return, std and each name is printed under its label
MainPrint ==
    /\ pc = "returned"
    /\ LET m_allocations == ret[1]
           m_cumul_return == ret[2]
           m_sharpe == ret[3]
           m_daily_return == ret[4]
           m_std == ret[5]
       IN  printed' = [Allocations |-> m_allocations,
                       SharpeRatio |-> m_sharpe,
                       StandardDeviation |-> m_std,
                       DailyReturn |-> m_daily_return,
                       CumulativeReturn |-> m_cumul_return]
    /\ pc' = "printed"
    /\ UNCHANGED <<stocks, period, files, padFill, all_data, prices,
                   allocations, success, fun, stats, ret, artifacts, raised,
                   warnings>>

Next == Load \/ OptimizeAndPlot \/ ExportAndReturn \/ MainPrint

Spec == Init /\ [][Next]_vars

(* -------------------- retrieve_data over any range --------------------- *)
\* a call of investment_portfolio on any range start_date..end_date, the
\* empty ranges (end before start) among them
InitData ==
    /\ pc = "start"
    /\ stocks \in StockLists
    /\ period \in {p \in [lo : AllDates, hi : AllDates] : p.lo <= p.hi + 1}
    /\ \E sp \in BenchmarkFiles :
       \E a \in [Tickers \cap Range(stocks) -> StockFiles(AllDates)] :
          files = Directory(stocks, sp, a)
    /\ padFill = FALSE
    /\ Idle

NextData == Load

SpecData == InitData /\ [][NextData]_vars

(* ------------------ statistics and sharpe on any input ----------------- *)
ColName(j) == IF j = 1 THEN "A" ELSE "B"

\* the price frames of up to NumDates rows, one column per ticker at most
Frames ==
    UNION {
      {[cols |-> [j \in 1..w |-> ColName(j)],
        idx  |-> [r \in 1..k |-> r],
        vals |-> v] : v \in [1..k -> [1..w -> Prices \cup {NaN}]]}
      : <<k, w>> \in (0..NumDates) \X (1..Cardinality(Tickers))}

InitPure ==
    /\ pc = "args"
    /\ stocks = <<>>
    /\ period = [lo |-> 1, hi |-> NumDates]
    /\ files = [t \in Names |-> NoFile]
    /\ padFill \in BOOLEAN
    /\ prices \in Frames
    /\ allocations \in Points(Len(prices.cols)) \cup {BeginningAllocs(Len(prices.cols))}
    /\ all_data = EmptyFrame /\ success = FALSE /\ fun = FNone
    /\ stats = <<>> /\ ret = <<>> /\ artifacts = {} /\ raised = "none"
    /\ warnings = {} /\ printed = <<>>

\* a call statistics(allocations, prices)
CallStatistics ==
    /\ pc = "args"
    /\ stats = <<>>
    /\ \E st \in {Statistics(allocations, prices, padFill)} :
          /\ stats' = st
          /\ warnings' = WarningsAfter(st)
    /\ UNCHANGED <<pc, stocks, period, files, padFill, all_data, prices,
                   allocations, success, fun, ret, artifacts, raised, printed>>

\* a call sharpe(allocations, prices); its division at line 53 is by the
\* daily_std statistics computes too
CallSharpe ==
    /\ pc = "args"
    /\ fun = FNone
    /\ fun' = Sharpe(allocations, prices, padFill)
    /\ \E st \in {Statistics(allocations, prices, padFill)} :
          warnings' = WarningsAfter(st)
    /\ UNCHANGED <<pc, stocks, period, files, padFill, all_data, prices,
                   allocations, success, stats, ret, artifacts, raised, printed>>

NextPure == CallStatistics \/ CallSharpe

SpecPure == InitPure /\ [][NextPure]_vars

(* ------------------------------ claims --------------------------------- *)
Returned == pc \in {"returned", "printed"}

\* C1: investment_portfolio returns (weights, Sharpe ratio, cumulative
\* return, mean daily return, standard deviation) in that order, and main
\* prints each returned value under its own label.
C1_PrintedUnderOwnLabel ==
    /\ Returned => ret = <<allocations, stats[4], stats[1], stats[2], stats[3]>>
    /\ pc = "printed" =>
          /\ printed.Allocations = ret[1]
          /\ printed.SharpeRatio = ret[2]
          /\ printed.CumulativeReturn = ret[3]
          /\ printed.DailyReturn = ret[4]
          /\ printed.StandardDeviation = ret[5]

\* the tolerance 1e-6 of the sum-to-one check
SumTolerance == Rat(1, 1000000)

WithinTolerance(x) ==
    LET e == RSub(RSum(x), ROne)
        a == IF e.n < 0 THEN RSub(RZero, e) ELSE e
    IN  ~RLeq(SumTolerance, a)

\* C2: whatever point the solver hands back, the returned weights satisfy
\* 0 <= w_i <= 1 for every i and |sum(w) - 1| < 1e-6.
C2_ReturnedWeightsFeasible ==
    Returned =>
        /\ \A i \in 1..Len(ret[1]) : RLeq(RZero, ret[1][i]) /\ RLeq(ret[1][i], ROne)
        /\ WithinTolerance(ret[1])

ZeroStd(st) == st[3].k = "fin" /\ st[3].s = 0

\* C3: statistics on a return series of standard deviation exactly 0 signals
\* DegenerateSeriesError instead of returning a NaN or infinite Sharpe ratio,
\* and investment_portfolio never returns a NaN or infinite Sharpe ratio.
C3_ZeroVarianceRejected ==
    /\ (stats # <<>> /\ ZeroStd(stats)) => raised = "DegenerateSeriesError"
    /\ Returned => IsFiniteF(ret[2])

\* C4: a run that ends in a fatal error has written neither
\* stock_comparison.png nor combined_data.xlsx.
C4_NoArtifactOnFailure ==
    pc = "failed" => artifacts = {}

\* C5: when the solver's result is unsuccessful, investment_portfolio still
\* returns the weights and the caller is informed of the non-convergence,
\* through the returned tuple (an entry beyond the five values) or a signal.
C5_NonConvergenceSignalled ==
    (Returned /\ ~success) =>
        /\ ret[1] = allocations
        /\ \/ Len(ret) > 5
           \/ raised # "none"
           \/ "NonConvergenceWarning" \in warnings

\* the dates of the range on which SPY.csv has a value, in order
BenchmarkDates ==
    LET dates == DateRange(period)
    IN  SelectSeq2(dates,
                   [i \in 1..Len(dates) |-> files[Benchmark].data[dates[i]] # NaN], 1)

\* C6: every row of the frame retrieve_data returns has a value in the SPY
\* column, and the row dates are exactly the dates of the range on which SPY
\* has data.
C6_RowsAreBenchmarkDates ==
    pc = "loaded" =>
        /\ all_data.idx = BenchmarkDates
        /\ \A r \in 1..Len(all_data.idx) :
              all_data.vals[r][ColIndex(all_data.cols, Benchmark)] # NaN

\* a loaded frame from which a row without SPY was dropped although a
\* requested asset has a price on that date, and which kept a row
C6_Witness ==
    /\ pc = "loaded"
    /\ Len(all_data.idx) >= 1
    /\ \E d \in Range(DateRange(period)) :
          /\ files[Benchmark].data[d] = NaN
          /\ \E i \in 1..Len(stocks) : files[stocks[i]].data[d] # NaN

NoMissing(df) ==
    \A r \in 1..Len(df.vals) : \A c \in 1..Len(df.vals[r]) : df.vals[r][c] # NaN

\* C7: whenever investment_portfolio invokes sharpe or statistics, the price
\* matrix it passes has no missing values.
C7_NoMissingPrices ==
    pc \in {"plotted", "returned", "printed"} => NoMissing(prices)

C9_ReportedStatistics ==
    pc = "returned" =>
        /\ ret[1] = allocations
        /\ <<ret[3], ret[4], ret[5], ret[2]>> = Statistics(ret[1], prices, padFill)
        /\ prices = SelectCols(all_data, stocks)

\* a return with a finite Sharpe ratio at a point the solver left outside
\* the bounds
C9_Witness ==
    /\ pc = "returned"
    /\ ret[2].k = "fin" /\ ret[2].s # 0
    /\ \E i \in 1..Len(ret[1]) : ~RLeq(ret[1][i], ROne)

C10_Columns ==
    /\ pc \notin {"start", "failed", "args"} =>
          /\ prices.cols = stocks
          /\ Benchmark \notin Range(prices.cols)
          /\ \A r \in 1..Len(prices.idx) :
                /\ Len(prices.vals[r]) = Len(stocks)
                /\ \A i \in 1..Len(stocks) :
                      prices.vals[r][i] = files[stocks[i]].data[prices.idx[r]]
    /\ pc \in {"plotted", "returned", "printed"} =>
          Len(allocations) = Len(stocks)
    /\ Returned => Len(ret[1]) = Len(stocks)

\* C10: retrieve_data leaves the caller's list of stocks unchanged, so the
\* price matrix handed to the solver and to statistics has exactly the
\* requested assets as columns, in the requested order and without SPY,
\* column i holding the prices of stocks[i], and the solver's point and the
\* returned weights have one entry per requested asset.
C10_OneEntryPerRequestedAsset ==
    [](C10_Columns) /\ [][stocks' = stocks]_vars

\* a return for the request B, A whose two price columns differ
C10_Witness ==
    /\ pc = "returned"
    /\ stocks = <<"B", "A">>
    /\ \E r \in 1..Len(prices.idx) : prices.vals[r][1] # prices.vals[r][2]

====
